---- MODULE Spec2Model ----
(***************************************************************************)
(* The Cedar 'u256' extension: the runtime half                            *)
(* (cedar-policy-core/src/extensions/u256.rs) and the validator half       *)
(* (cedar-policy-validator/src/extensions/u256.rs).                        *)
(*                                                                         *)
(* A string is a sequence of characters; a character is written as a       *)
(* one-character TLA+ string, except for three characters that are named:  *)
(* "QUOTE" (U+0022), "BACKSLASH" (U+005C), "NUL" (U+0000) and "ARABIC3"    *)
(* (U+0663, ARABIC-INDIC DIGIT THREE, a decimal digit of Unicode class Nd  *)
(* outside ASCII).                                                         *)
(* A U256 is 256 bits, kept as little-endian limbs so that no intermediate *)
(* of the arithmetic leaves the model checker's integers.                  *)
(***************************************************************************)
EXTENDS Integers, Sequences, FiniteSets, TLC

VARIABLES runtime_table, removed_case, debug_assertions, ext, schema, arg, pc, vres, res, res2, cmp, shown, res3, shown2

vars == << runtime_table, removed_case, debug_assertions, ext, schema, arg, pc, vres, res, res2, cmp, shown, res3, shown2 >>

(***************************************************************************)
(* Bounds of the checked inputs.                                           *)
(***************************************************************************)
\* every string over Alphabet of length 0..MaxLen is an input
MaxLen == 3

\* the boundary strings are also tried with 0..MaxPad leading zeros
MaxPad == 2

\* long literals -MaxLong..MaxLong are the non-string arguments
MaxLong == 1

(***************************************************************************)
(* Characters.                                                             *)
(***************************************************************************)
AsciiDigits == {"0", "1", "2", "3", "4", "5", "6", "7", "8", "9"}

\* the characters the short inputs are drawn from
Alphabet == {"0", "1", "9", ".", "-", "+", "a", "ARABIC3", "QUOTE", "BACKSLASH"}

\* str.bytes(): the UTF-8 encoding of one character
Utf8Bytes(c) ==
    CASE c = "0" -> <<48>> [] c = "1" -> <<49>> [] c = "2" -> <<50>>
      [] c = "3" -> <<51>> [] c = "4" -> <<52>> [] c = "5" -> <<53>>
      [] c = "6" -> <<54>> [] c = "7" -> <<55>> [] c = "8" -> <<56>>
      [] c = "9" -> <<57>> [] c = "." -> <<46>> [] c = "-" -> <<45>>
      [] c = "+" -> <<43>> [] c = "a" -> <<97>> [] c = "QUOTE" -> <<34>>
      [] c = "BACKSLASH" -> <<92>> [] c = "ARABIC3" -> <<217, 163>>
      [] c = "NUL" -> <<0>>

\* the bytes of s[lo..hi], by halves
RECURSIVE BytesOf(_, _, _)
BytesOf(s, lo, hi) ==
    IF lo > hi THEN <<>>
    ELSE IF lo = hi THEN Utf8Bytes(s[lo])
    ELSE LET mid == (lo + hi) \div 2
         IN BytesOf(s, lo, mid) \o BytesOf(s, mid + 1, hi)

Bytes(s) == BytesOf(s, 1, Len(s))

\* the regex class [0-9]
ClassAsciiDigit(c) == c \in AsciiDigits

\* the regex class \d: the regex crate is Unicode-aware, \d is \p{Nd}
ClassDigit(c) == c \in AsciiDigits \cup {"ARABIC3"}

\* Regex::new(r#"^[0-9]\d*$"#).is_match(s): $ matches only at the end of the text
is_match(s) ==
    /\ s # <<>>
    /\ ClassAsciiDigit(s[1])
    /\ \A i \in 2..Len(s) : ClassDigit(s[i])

(***************************************************************************)
(* U256: 256 bits as NLimbs limbs of LimbBase, least significant first.    *)
(***************************************************************************)
LimbBase == 65536

NLimbs == 16

U256Zero == [i \in 1..NLimbs |-> 0]

U256Max == [i \in 1..NLimbs |-> LimbBase - 1]

\* overflowing_mul_u64(10) and overflowing_add(d) fused per limb would hide which
\* of the two overflowed, so they are kept apart as in from_dec_str.
RECURSIVE MulLimbs(_, _, _, _)
MulLimbs(v, m, i, carry) ==
    IF i > NLimbs THEN [value |-> v, carry |-> carry]
    ELSE LET t == v[i] * m + carry
         IN MulLimbs([v EXCEPT ![i] = t % LimbBase], m, i + 1, t \div LimbBase)

overflowing_mul_u64(v, m) == MulLimbs(v, m, 1, 0)

RECURSIVE AddLimbs(_, _, _)
AddLimbs(v, i, carry) ==
    IF i > NLimbs THEN [value |-> v, overflow |-> carry > 0]
    ELSE LET t == v[i] + carry
         IN AddLimbs([v EXCEPT ![i] = t % LimbBase], i + 1, t \div LimbBase)

overflowing_add(v, d) == AddLimbs(v, 1, d)

\* one turn of the loop of U256::from_dec_str: b.wrapping_sub(b'0') > 9 is an
\* invalid character, an overflow of the multiplication or of the addition an
\* invalid length
DecStep(acc, byte) ==
    LET b == (byte - 48) % 256
    IN IF b > 9 THEN [ok |-> FALSE, value |-> U256Zero, err |-> "InvalidCharacter"]
       ELSE LET m == overflowing_mul_u64(acc, 10)
            IN IF m.carry > 0
               THEN [ok |-> FALSE, value |-> U256Zero, err |-> "InvalidLength"]
               ELSE LET a == overflowing_add(m.value, b)
                    IN IF a.overflow
                       THEN [ok |-> FALSE, value |-> U256Zero, err |-> "InvalidLength"]
                       ELSE [ok |-> TRUE, value |-> a.value, err |-> "none"]

\* the loop over bytes[lo..hi], left to right, returning at the first error;
\* the range is walked by halves to keep the evaluation shallow
RECURSIVE DecLoop(_, _, _, _)
DecLoop(bytes, lo, hi, acc) ==
    IF lo > hi THEN [ok |-> TRUE, value |-> acc, err |-> "none"]
    ELSE IF lo = hi THEN DecStep(acc, bytes[lo])
    ELSE LET mid == (lo + hi) \div 2
             left == DecLoop(bytes, lo, mid, acc)
         IN IF ~left.ok THEN left ELSE DecLoop(bytes, mid + 1, hi, left.value)

from_dec_str(s) == LET bytes == Bytes(s) IN DecLoop(bytes, 1, Len(bytes), U256Zero)

\* current % 10 and current / 10, from the most significant limb down
RECURSIVE DivLimbs(_, _, _)
DivLimbs(v, i, rem) ==
    IF i < 1 THEN [quot |-> v, rem |-> rem]
    ELSE LET t == rem * LimbBase + v[i]
         IN DivLimbs([v EXCEPT ![i] = t \div 10], i - 1, t % 10)

DigitChar(d) ==
    CASE d = 0 -> "0" [] d = 1 -> "1" [] d = 2 -> "2" [] d = 3 -> "3" [] d = 4 -> "4"
      [] d = 5 -> "5" [] d = 6 -> "6" [] d = 7 -> "7" [] d = 8 -> "8" [] d = 9 -> "9"

\* the loop of impl Display for U256: the digits of repeated division by ten,
\* least significant first, until the quotient is zero; FmtTurns runs at most
\* n turns of it and FmtLoop runs it in rounds of eight turns, to keep the
\* evaluation shallow
RECURSIVE FmtTurns(_, _)
FmtTurns(current, n) ==
    LET dm == DivLimbs(current, NLimbs, 0)
    IN IF dm.quot = U256Zero \/ n = 1
       THEN [digits |-> <<DigitChar(dm.rem)>>, current |-> dm.quot]
       ELSE LET more == FmtTurns(dm.quot, n - 1)
            IN [digits |-> more.digits \o <<DigitChar(dm.rem)>>, current |-> more.current]

RECURSIVE FmtLoop(_)
FmtLoop(current) ==
    LET round == FmtTurns(current, 8)
    IN IF round.current = U256Zero THEN round.digits
       ELSE FmtLoop(round.current) \o round.digits

\* the display without the case of zero
U256DisplayNoZero(v) == IF v = U256Zero THEN <<>> ELSE FmtLoop(v)

\* impl Display for U256: "0" for zero
U256Display(v) == IF v = U256Zero THEN <<"0">> ELSE FmtLoop(v)

\* #[derive(PartialOrd, Ord)] on U256: limbs compared from the most significant
RECURSIVE CmpLimbs(_, _, _)
CmpLimbs(a, b, i) ==
    IF i < 1 THEN "Equal"
    ELSE IF a[i] < b[i] THEN "Less"
    ELSE IF a[i] > b[i] THEN "Greater"
    ELSE CmpLimbs(a, b, i - 1)

U256Cmp(a, b) == CmpLimbs(a, b, NLimbs)

\* 2^256 - 1 as decimal text (78 digits), the literal of the creation test
MaxDec == <<
    "1", "1", "5", "7", "9", "2", "0", "8", "9", "2", "3", "7", "3", "1", "6", "1", "9", "5", "4", "2",
    "3", "5", "7", "0", "9", "8", "5", "0", "0", "8", "6", "8", "7", "9", "0", "7", "8", "5", "3", "2",
    "6", "9", "9", "8", "4", "6", "6", "5", "6", "4", "0", "5", "6", "4", "0", "3", "9", "4", "5", "7",
    "5", "8", "4", "0", "0", "7", "9", "1", "3", "1", "2", "9", "6", "3", "9", "9", "3", "5" >>

\* 2^256 as decimal text
MaxDecPlusOne == <<
    "1", "1", "5", "7", "9", "2", "0", "8", "9", "2", "3", "7", "3", "1", "6", "1", "9", "5", "4", "2",
    "3", "5", "7", "0", "9", "8", "5", "0", "0", "8", "6", "8", "7", "9", "0", "7", "8", "5", "3", "2",
    "6", "9", "9", "8", "4", "6", "6", "5", "6", "4", "0", "5", "6", "4", "0", "3", "9", "4", "5", "7",
    "5", "8", "4", "0", "0", "7", "9", "1", "3", "1", "2", "9", "6", "3", "9", "9", "3", "6" >>

\* 2^256 - 2 as decimal text
MaxDecMinusOne == <<
    "1", "1", "5", "7", "9", "2", "0", "8", "9", "2", "3", "7", "3", "1", "6", "1", "9", "5", "4", "2",
    "3", "5", "7", "0", "9", "8", "5", "0", "0", "8", "6", "8", "7", "9", "0", "7", "8", "5", "3", "2",
    "6", "9", "9", "8", "4", "6", "6", "5", "6", "4", "0", "5", "6", "4", "0", "3", "9", "4", "5", "7",
    "5", "8", "4", "0", "0", "7", "9", "1", "3", "1", "2", "9", "6", "3", "9", "9", "3", "4" >>
(***************************************************************************)
(* Runtime half: cedar-policy-core/src/extensions/u256.rs                  *)
(***************************************************************************)
Some(x) == <<x>>

None == <<>>

Ok(v) == [ok |-> TRUE, val |-> v]

Err(e) == [ok |-> FALSE, err |-> e]

\* const EXTENSION_NAME, and the five names of mod names
EXTENSION_NAME == "u256"

LESS_THAN == "u256LessThan"

LESS_THAN_OR_EQUAL == "u256LessThanOrEqual"

GREATER_THAN == "u256GreaterThan"

GREATER_THAN_OR_EQUAL == "u256GreaterThanOrEqual"

\* Cedar values: strings, longs, booleans and extension values
StringValue(s) == [tag |-> "String", s |-> s]

LongValue(n) == [tag |-> "Long", n |-> n]

BoolValue(b) == [tag |-> "Bool", b |-> b]

\* enum Error and its #[error(...)] texts: the text of FailedParse ends with the input
FailedParse(s) == [kind |-> "FailedParse", str |-> s]

Overflow == [kind |-> "Overflow", str |-> <<>>]

ErrorToString(e) ==
    IF e.kind = "FailedParse"
    THEN <<"input string is not a well-formed u256 value: ">> \o e.str
    ELSE <<"overflow when converting to u256">>

\* UINT256::typename
typename == EXTENSION_NAME

\* the conversion tried before the lexical check
UINT256_from_str_ConversionFirst(str) ==
    LET l == from_dec_str(str)
    IN IF ~l.ok THEN Err(Overflow)
       ELSE IF ~is_match(str) THEN Err(FailedParse(str))
       ELSE Ok([value |-> l.value])

\* UINT256::from_str: the regex first, then the conversion, whose every error
\* becomes Overflow
UINT256_from_str(str) ==
    IF ~is_match(str) THEN Err(FailedParse(str))
    ELSE LET l == from_dec_str(str)
         IN IF ~l.ok THEN Err(Overflow) ELSE Ok([value |-> l.value])

\* impl Display for UINT256
UINT256Display(u) == U256Display(u.value)

\* #[derive(PartialEq, Eq)] and #[derive(PartialOrd, Ord)] on struct UINT256
\* equality of the least significant limb alone
UINT256EqLowLimb(a, b) == a.value[1] = b.value[1]

UINT256Eq(a, b) == a.value = b.value

UINT256Cmp(a, b) == U256Cmp(a.value, b.value)

\* the error raised under the name of the decimal extension
extension_err_decimal(msg) ==
    [kind |-> "ExtensionError", extension_name |-> "decimal", msg |-> msg]

extension_err(msg) ==
    [kind |-> "ExtensionError", extension_name |-> EXTENSION_NAME, msg |-> msg]

\* Value::get_as_string: the string of a string value, the evaluator's type
\* error for any other value
get_as_string(v) ==
    IF v.tag = "String" THEN Ok(v.s)
    ELSE Err([kind |-> "TypeError", expected |-> <<"String">>, actual |-> v.tag])

\* ExtensionValueWithArgs::new(value, args, constructor) inside Value::ExtensionValue
ExtensionValue(u, args, constructor) ==
    [tag |-> "ExtensionValue", typename |-> typename, value |-> u,
     args |-> args, constructor |-> constructor]

uint256_from_str(a) ==
    LET str == get_as_string(a)
    IN IF ~str.ok THEN str
       ELSE LET u256 == UINT256_from_str(str.val)
            IN IF ~u256.ok THEN Err(extension_err(ErrorToString(u256.err)))
               ELSE Ok(ExtensionValue(u256.val, <<a>>, EXTENSION_NAME))

\* Value's equality and ordering on two extension values are those of the
\* payloads; the retained arguments and constructor name take no part. Values
\* of different kinds are unequal.
ValueEq(l, r) ==
    IF l.tag = "ExtensionValue" /\ r.tag = "ExtensionValue"
    THEN l.typename = r.typename /\ UINT256Eq(l.value, r.value)
    ELSE l = r

ValueCmp(l, r) == UINT256Cmp(l.value, r.value)

\* the operands taken in the wrong order
uint256_lt_swapped(left, right) == Ok(BoolValue(ValueCmp(right, left) = "Less"))

\* the strict comparison in place of the non-strict
uint256_le_strict(left, right) == Ok(BoolValue(ValueCmp(left, right) = "Less"))

uint256_lt(left, right) == Ok(BoolValue(ValueCmp(left, right) = "Less"))

uint256_le(left, right) == Ok(BoolValue(ValueCmp(left, right) # "Greater"))

uint256_gt(left, right) == Ok(BoolValue(ValueCmp(left, right) = "Greater"))

uint256_ge(left, right) == Ok(BoolValue(ValueCmp(left, right) # "Less"))

\* SchemaType
SchemaString == [kind |-> "String"]

SchemaBool == [kind |-> "Bool"]

SchemaExtension(name) == [kind |-> "Extension", name |-> name]

\* ExtensionFunction::unary and ExtensionFunction::binary
unary(name, style, func, return_type, arg_type) ==
    [name |-> name, style |-> style, func |-> func,
     return_type |-> Some(return_type), arg_types |-> <<arg_type>>]

binary(name, style, func, return_type, arg_types) ==
    [name |-> name, style |-> style, func |-> func,
     return_type |-> Some(return_type), arg_types |-> arg_types]

\* the table with u256LessThan registered in free-function style
extension_lt_function_style ==
    LET uint256_type == SchemaExtension(typename)
    IN [name |-> EXTENSION_NAME,
        funcs |-> <<
          unary(EXTENSION_NAME, "FunctionStyle", "uint256_from_str",
                uint256_type, Some(SchemaString)),
          binary(LESS_THAN, "FunctionStyle", "uint256_lt",
                 SchemaBool, <<Some(uint256_type), Some(uint256_type)>>),
          binary(LESS_THAN_OR_EQUAL, "MethodStyle", "uint256_le",
                 SchemaBool, <<Some(uint256_type), Some(uint256_type)>>),
          binary(GREATER_THAN, "MethodStyle", "uint256_gt",
                 SchemaBool, <<Some(uint256_type), Some(uint256_type)>>),
          binary(GREATER_THAN_OR_EQUAL, "MethodStyle", "uint256_ge",
                 SchemaBool, <<Some(uint256_type), Some(uint256_type)>>) >>]

\* pub fn extension()
extension ==
    LET uint256_type == SchemaExtension(typename)
    IN [name |-> EXTENSION_NAME,
        funcs |-> <<
          unary(EXTENSION_NAME, "FunctionStyle", "uint256_from_str",
                uint256_type, Some(SchemaString)),
          binary(LESS_THAN, "MethodStyle", "uint256_lt",
                 SchemaBool, <<Some(uint256_type), Some(uint256_type)>>),
          binary(LESS_THAN_OR_EQUAL, "MethodStyle", "uint256_le",
                 SchemaBool, <<Some(uint256_type), Some(uint256_type)>>),
          binary(GREATER_THAN, "MethodStyle", "uint256_gt",
                 SchemaBool, <<Some(uint256_type), Some(uint256_type)>>),
          binary(GREATER_THAN_OR_EQUAL, "MethodStyle", "uint256_ge",
                 SchemaBool, <<Some(uint256_type), Some(uint256_type)>>) >>]

\* ExtensionFunction::is_constructor: the function that returns the
\* extension's own type and bears the extension's name
is_constructor(e, f) ==
    f.return_type = Some(SchemaExtension(e.name)) /\ f.name = e.name

\* Extension::get_func: the functions of that name
get_func(e, name) == { i \in 1..Len(e.funcs) : e.funcs[i].name = name }

\* ExtensionFunction::call: the boxed implementation applied to the arguments
call(f, args) ==
    CASE f.func = "uint256_from_str" -> uint256_from_str(args[1])
      [] f.func = "uint256_lt" -> uint256_lt(args[1], args[2])
      [] f.func = "uint256_le" -> uint256_le(args[1], args[2])
      [] f.func = "uint256_gt" -> uint256_gt(args[1], args[2])
      [] f.func = "uint256_ge" -> uint256_ge(args[1], args[2])

\* the evaluator's call of an extension function by name
call_extension_fn(e, name, args) ==
    LET i == CHOOSE i \in get_func(e, name) : TRUE
    IN call(e.funcs[i], args)

(***************************************************************************)
(* Validator half: cedar-policy-validator/src/extensions/u256.rs           *)
(***************************************************************************)
\* types::Type
primitive_string == [kind |-> "Primitive", prim |-> "String"]

primitive_boolean == [kind |-> "Primitive", prim |-> "Bool"]

TypeNever == [kind |-> "Never"]

TypeExtension(name) == [kind |-> "ExtensionType", name |-> name]

\* the panic of an unmatched function name
Panic(fname) == [panic |-> TRUE, fname |-> fname]

IsPanic(x) == x.panic

ComparisonNames ==
    {"u256LessThan", "u256LessThanOrEqual", "u256GreaterThan", "u256GreaterThanOrEqual"}

\* the dispatch with a default case that yields no argument types
get_argument_types_defaulting(fname, u256_ty) ==
    CASE fname = "u256" -> [panic |-> FALSE, fname |-> fname, val |-> <<primitive_string>>]
      [] fname \in ComparisonNames ->
            [panic |-> FALSE, fname |-> fname, val |-> <<u256_ty, u256_ty>>]
      [] OTHER -> [panic |-> FALSE, fname |-> fname, val |-> <<>>]

get_argument_types(fname, u256_ty) ==
    CASE fname = "u256" -> [panic |-> FALSE, fname |-> fname, val |-> <<primitive_string>>]
      [] fname \in ComparisonNames ->
            [panic |-> FALSE, fname |-> fname, val |-> <<u256_ty, u256_ty>>]
      [] OTHER -> Panic(fname)

get_return_type(fname, u256_ty) ==
    CASE fname = "u256" -> [panic |-> FALSE, fname |-> fname, val |-> u256_ty]
      [] fname \in ComparisonNames ->
            [panic |-> FALSE, fname |-> fname, val |-> primitive_boolean]
      [] OTHER -> Panic(fname)

\* the hook attached to every function
get_argument_check_all(fname) ==
    CASE fname = "u256" \/ fname \in ComparisonNames ->
            [panic |-> FALSE, fname |-> fname, val |-> Some("validate_u256_string")]
      [] OTHER -> Panic(fname)

get_argument_check(fname) ==
    CASE fname = "u256" ->
            [panic |-> FALSE, fname |-> fname, val |-> Some("validate_u256_string")]
      [] fname \in ComparisonNames -> [panic |-> FALSE, fname |-> fname, val |-> None]
      [] OTHER -> Panic(fname)

\* Type::is_consistent_with(&SchemaType): the same primitive, or the extension
\* type of the same name
is_consistent_with(ty, sty) ==
    \/ ty = primitive_string /\ sty = SchemaString
    \/ ty = primitive_boolean /\ sty = SchemaBool
    \/ ty.kind = "ExtensionType" /\ sty.kind = "Extension" /\ ty.name = sty.name

\* the condition with a missing declared return type let through
ReturnTypeAgreesOrUndeclared(f, return_type) ==
    IF f.return_type # None
    THEN is_consistent_with(return_type, f.return_type[1])
    ELSE TRUE

\* the condition of the debug_assert! in extension_schema
ReturnTypeAgrees(f, return_type) ==
    IF f.return_type # None
    THEN is_consistent_with(return_type, f.return_type[1])
    ELSE return_type = TypeNever

\* no case of the mirror's dispatches is removed
NoCase == [dispatch |-> "none", name |-> "none"]

\* a dispatch of the mirror on a name: with the case of that name removed from
\* its match, the name falls to the panic of the default case
Dispatch(fn, fname, result) ==
    IF removed_case = [dispatch |-> fn, name |-> fname] THEN Panic(fname) ELSE result

\* the closure of extension_schema on one function: the three dispatches in
\* the order they run (return type, the assertion, argument types, check)
FunType(f, u256_ty, dbg) ==
    LET rt == Dispatch("get_return_type", f.name, get_return_type(f.name, u256_ty))
        at == Dispatch("get_argument_types", f.name, get_argument_types(f.name, u256_ty))
        ck == Dispatch("get_argument_check", f.name, get_argument_check(f.name))
    IN IF IsPanic(rt) THEN [ok |-> FALSE, abort |-> "panic"]
       ELSE IF dbg /\ ~ReturnTypeAgrees(f, rt.val) THEN [ok |-> FALSE, abort |-> "assertion"]
       ELSE IF IsPanic(at) \/ IsPanic(ck) THEN [ok |-> FALSE, abort |-> "panic"]
       ELSE [ok |-> TRUE,
             val |-> [name |-> f.name, argument_types |-> at.val,
                      return_type |-> rt.val, check |-> ck.val]]

RECURSIVE CollectFunTypes(_, _, _, _)
CollectFunTypes(funcs, u256_ty, dbg, acc) ==
    IF funcs = <<>> THEN [ok |-> TRUE, val |-> acc]
    ELSE LET t == FunType(Head(funcs), u256_ty, dbg)
         IN IF ~t.ok THEN t
            ELSE CollectFunTypes(Tail(funcs), u256_ty, dbg, Append(acc, t.val))

\* extension_schema on a runtime extension; dbg is cfg(debug_assertions)
SchemaOf(u256_ext, dbg) ==
    LET u256_ty == TypeExtension(u256_ext.name)
        fun_tys == CollectFunTypes(u256_ext.funcs, u256_ty, dbg, <<>>)
    IN IF ~fun_tys.ok THEN fun_tys
       ELSE [ok |-> TRUE, val |-> [name |-> u256_ext.name, fun_tys |-> fun_tys.val]]

\* pub fn extension_schema(): u256::extension() is the table of the build,
\* which is extension in the build as shipped
extension_schema(dbg) == SchemaOf(runtime_table, dbg)

\* Expressions: a literal, or a context attribute whose value the request holds
LitExpr(v) == [kind |-> "Lit", value |-> v]

AttrExpr(v) == [kind |-> "GetAttr", value |-> v]

\* str::escape_debug on one character of the model: quote and backslash are
\* escaped, NUL is written \0, the printable others are kept
EscapeChar(c) ==
    IF c \in {"QUOTE", "BACKSLASH"} THEN <<"BACKSLASH", c>>
    ELSE IF c = "NUL" THEN <<"BACKSLASH", "0">>
    ELSE <<c>>

\* str::escape_debug on s[lo..hi], by halves
RECURSIVE EscapeRange(_, _, _)
EscapeRange(s, lo, hi) ==
    IF lo > hi THEN <<>>
    ELSE IF lo = hi THEN EscapeChar(s[lo])
    ELSE LET mid == (lo + hi) \div 2
         IN EscapeRange(s, lo, mid) \o EscapeRange(s, mid + 1, hi)

escape_debug(s) == EscapeRange(s, 1, Len(s))

\* Display of a string literal expression
ExprDisplay(e) == <<"QUOTE">> \o escape_debug(e.value.s) \o <<"QUOTE">>

\* format!("u256({arg})")
FormatCall(e) == <<"u256", "(">> \o ExprDisplay(e) \o <<")">>

\* the parser on the text after the opening quote of a string literal. A
\* backslash that is not itself escaped escapes the character after it, so a
\* character is escaped when an odd number of backslashes runs up to it. The
\* literal ends at the first quote that is not escaped; the escapes \" \\ \0
\* are undone, any other escape and an unterminated literal are parse errors.
BackslashRun(text, i) ==
    CHOOSE k \in 0..(i - 1) :
        /\ \A j \in (i - k)..(i - 1) : text[j] = "BACKSLASH"
        /\ (i - k = 1 \/ text[i - k - 1] # "BACKSLASH")

Escaped(text, i) == BackslashRun(text, i) % 2 = 1

Unescape(c) == IF c = "0" THEN "NUL" ELSE c

LexString(text) ==
    LET closing == { i \in 1..Len(text) : text[i] = "QUOTE" /\ ~Escaped(text, i) }
        bad == [ok |-> FALSE, s |-> <<>>, rest |-> <<>>]
    IN IF closing = {} THEN bad
       ELSE LET close == CHOOSE i \in closing : \A j \in closing : i <= j
                marked == [i \in 1..(close - 1) |->
                             IF Escaped(text, i) THEN Unescape(text[i])
                             ELSE IF text[i] = "BACKSLASH" THEN "DROPPED"
                             ELSE text[i]]
                unknown == \E i \in 1..(close - 1) :
                              Escaped(text, i) /\ text[i] \notin {"QUOTE", "BACKSLASH", "0"}
                dropped(c) == c # "DROPPED"
            IN IF unknown THEN bad
               ELSE [ok |-> TRUE, s |-> SelectSeq(marked, dropped),
                     rest |-> SubSeq(text, close + 1, Len(text))]

\* RestrictedExpr::from_str on the text of a call u256("...")
ParseCall(text) ==
    IF Len(text) < 3 \/ SubSeq(text, 1, 3) # <<"u256", "(", "QUOTE">>
    THEN [ok |-> FALSE, s |-> <<>>]
    ELSE LET lit == LexString(SubSeq(text, 4, Len(text)))
         IN IF lit.ok /\ lit.rest = <<")">> THEN [ok |-> TRUE, s |-> lit.s]
            ELSE [ok |-> FALSE, s |-> <<>>]

\* RestrictedEvaluator::interpret on the parsed call, with all extensions available
interpret(s) == call_extension_fn(extension, EXTENSION_NAME, <<StringValue(s)>>)

\* the check without the guard on the kind of the argument expression: what is
\* no string literal does not evaluate as a restricted expression
validate_u256_string_unguarded(exprs) ==
    IF Len(exprs) >= 1 /\ exprs[1].kind = "Lit" /\ exprs[1].value.tag = "String"
    THEN LET expr == ParseCall(FormatCall(exprs[1]))
         IN IF expr.ok /\ interpret(expr.s).ok THEN [ok |-> TRUE, err |-> <<>>]
            ELSE [ok |-> FALSE, err |-> <<"Failed to parse as a u256 value: ">>]
    ELSE [ok |-> FALSE, err |-> <<"Failed to parse as a u256 value: ">>]

validate_u256_string(exprs) ==
    IF Len(exprs) >= 1 /\ exprs[1].kind = "Lit" /\ exprs[1].value.tag = "String"
    THEN LET a == exprs[1]
             expr == ParseCall(FormatCall(a))
             failed == [ok |-> FALSE,
                        err |-> <<"Failed to parse as a u256 value: ">> \o ExprDisplay(a)]
         IN IF expr.ok
            THEN IF interpret(expr.s).ok THEN [ok |-> TRUE, err |-> <<>>] ELSE failed
            ELSE failed
    ELSE [ok |-> TRUE, err |-> <<>>]

\* the static-check hook of a mirror entry applied to the call's arguments
static_check(entry, exprs) ==
    IF entry.check = None THEN [ok |-> TRUE, err |-> <<>>]
    ELSE validate_u256_string(exprs)

(***************************************************************************)
(* Inputs.                                                                 *)
(***************************************************************************)
Repeat(c, n) == [i \in 1..n |-> c]

ShortStrings == UNION { [1..n -> Alphabet] : n \in 0..MaxLen }

\* the strings of the creation, equality, comparison and display tests
TestStrings ==
    { <<"1", "2", ".", "3", "4">>,
      <<"1", ".", "0", ".">>,
      <<"1", ".">>,
      <<".", "1">>,
      <<"1", ".", "a">>,
      <<"-", ".">>,
      <<"1", "2", "3">>,
      <<"1", "2", "4">>,
      <<"0", "1", "2", "3">>,
      <<"1", "2", "3", "0">>,
      <<"1", "2", "3", "0", "0">>,
      <<"1", "2", "3", "4", "5", "6", "0">>,
      <<"1", "2", "3", "4", "5", "6">>,
      <<"1", "2", "3", "4">> }

\* around 2^256: the maximum, its neighbours, 78 nines, and 10^78 (79 digits)
BoundaryStrings ==
    { MaxDec, MaxDecPlusOne, MaxDecMinusOne, Repeat("9", Len(MaxDec)),
      <<"1">> \o Repeat("0", Len(MaxDec)) }

\* the boundary strings with leading zeros, and with one character that is no
\* ASCII digit put before or after them
LongStrings ==
    { Repeat("0", k) \o b : k \in 0..MaxPad, b \in BoundaryStrings }
    \cup { b \o <<c>> : b \in BoundaryStrings, c \in {".", "a", "ARABIC3"} }
    \cup { <<c>> \o b : b \in BoundaryStrings, c \in {"-", "+"} }

Inputs == ShortStrings \cup TestStrings \cup LongStrings

Longs == { LongValue(n) : n \in (0 - MaxLong)..MaxLong }

\* the argument expressions of the call u256(arg)
ArgExprs ==
    { LitExpr(StringValue(s)) : s \in Inputs } \cup { AttrExpr(StringValue(s)) : s \in Inputs }
    \cup { LitExpr(v) : v \in Longs } \cup { AttrExpr(v) : v \in Longs }

\* the texts of the second operand of a comparison; 65659 is 2^16 + 123
Operands ==
    { <<"0">>, <<"0", "0">>, <<"1">>, <<"1", "2", "3">>, <<"0", "1", "2", "3">>, <<"1", "2", "4">>,
      <<"6", "5", "6", "5", "9">>, MaxDec, MaxDecMinusOne, <<"0">> \o MaxDec }

(***************************************************************************)
(* The state machine: the extension and its mirror are built once, then    *)
(* one call u256(arg) is validated and, if it passes, evaluated; a value   *)
(* that was constructed is compared with a second one, displayed, and its  *)
(* text constructed and displayed again.                                   *)
(***************************************************************************)
NoValue == [tag |-> "none"]

NoCmp == [lt |-> NoValue, le |-> NoValue, gt |-> NoValue, ge |-> NoValue,
          eq |-> NoValue, eqText |-> NoValue, eqLong |-> NoValue]

\* the build as shipped: the table of extension(), no case removed
Init ==
    /\ runtime_table = extension
    /\ removed_case = NoCase
    /\ debug_assertions \in BOOLEAN
    /\ arg \in ArgExprs
    /\ ext = NoValue
    /\ schema = NoValue
    /\ pc = "start"
    /\ vres = NoValue
    /\ res = NoValue
    /\ res2 = NoValue
    /\ cmp = NoCmp
    /\ shown = NoValue
    /\ res3 = NoValue
    /\ shown2 = NoValue

\* u256::extension(), the table of the build
LoadExtension ==
    /\ pc = "start"
    /\ ext' = runtime_table
    /\ pc' = "loaded"
    /\ UNCHANGED << runtime_table, removed_case, debug_assertions, schema, arg, vres, res, res2, cmp, shown, res3, shown2 >>

\* extension_schema(): a panic or a failed assertion aborts
LoadSchema ==
    /\ pc = "loaded"
    /\ LET s == extension_schema(debug_assertions)
       IN IF s.ok THEN schema' = s.val /\ pc' = "ready"
          ELSE schema' = schema /\ pc' = "aborted"
    /\ UNCHANGED << runtime_table, removed_case, debug_assertions, ext, arg, vres, res, res2, cmp, shown, res3, shown2 >>

\* the entry of the mirror for a function name
mirror_entry(sch, name) ==
    sch.fun_tys[CHOOSE i \in 1..Len(sch.fun_tys) : sch.fun_tys[i].name = name]

\* validation of the call: the constructor's static-check hook on the argument
\* expression; an error ends the pipeline before evaluation
Validate ==
    /\ pc = "ready"
    /\ vres' = static_check(mirror_entry(schema, EXTENSION_NAME), <<arg>>)
    /\ pc' = IF vres'.ok THEN "validated" ELSE "rejected"
    /\ UNCHANGED << runtime_table, removed_case, debug_assertions, ext, schema, arg, res, res2, cmp, shown, res3, shown2 >>

\* evaluation of the call on the value of the argument
Evaluate ==
    /\ pc = "validated"
    /\ res' = call_extension_fn(ext, EXTENSION_NAME, <<arg.value>>)
    /\ pc' = IF res'.ok THEN "constructed" ELSE "failed"
    /\ UNCHANGED << runtime_table, removed_case, debug_assertions, ext, schema, arg, vres, res2, cmp, shown, res3, shown2 >>

\* a second value, constructed by its own call from an operand text
EvaluateOperand ==
    /\ pc = "constructed"
    /\ \E s \in Operands :
          res2' = call_extension_fn(ext, EXTENSION_NAME, <<StringValue(s)>>)
    /\ pc' = "operands"
    /\ UNCHANGED << runtime_table, removed_case, debug_assertions, ext, schema, arg, vres, res, cmp, shown, res3, shown2 >>

LessThan ==
    /\ pc = "operands"
    /\ cmp' = [cmp EXCEPT !.lt = call_extension_fn(ext, LESS_THAN, <<res.val, res2.val>>)]
    /\ pc' = "lt"
    /\ UNCHANGED << runtime_table, removed_case, debug_assertions, ext, schema, arg, vres, res, res2, shown, res3, shown2 >>

LessThanOrEqual ==
    /\ pc = "lt"
    /\ cmp' = [cmp EXCEPT !.le =
                  call_extension_fn(ext, LESS_THAN_OR_EQUAL, <<res.val, res2.val>>)]
    /\ pc' = "le"
    /\ UNCHANGED << runtime_table, removed_case, debug_assertions, ext, schema, arg, vres, res, res2, shown, res3, shown2 >>

GreaterThan ==
    /\ pc = "le"
    /\ cmp' = [cmp EXCEPT !.gt = call_extension_fn(ext, GREATER_THAN, <<res.val, res2.val>>)]
    /\ pc' = "gt"
    /\ UNCHANGED << runtime_table, removed_case, debug_assertions, ext, schema, arg, vres, res, res2, shown, res3, shown2 >>

GreaterThanOrEqual ==
    /\ pc = "gt"
    /\ cmp' = [cmp EXCEPT !.ge =
                  call_extension_fn(ext, GREATER_THAN_OR_EQUAL, <<res.val, res2.val>>)]
    /\ pc' = "ge"
    /\ UNCHANGED << runtime_table, removed_case, debug_assertions, ext, schema, arg, vres, res, res2, shown, res3, shown2 >>

\* the evaluator's == on the two values, on the value and the string it was
\* constructed from, and on the value and a long
Equal ==
    /\ pc = "ge"
    /\ \E n \in Longs :
          cmp' = [cmp EXCEPT !.eq = BoolValue(ValueEq(res.val, res2.val)),
                             !.eqText = BoolValue(ValueEq(res.val, arg.value)),
                             !.eqLong = BoolValue(ValueEq(res.val, n))]
    /\ pc' = "compared"
    /\ UNCHANGED << runtime_table, removed_case, debug_assertions, ext, schema, arg, vres, res, res2, shown, res3, shown2 >>

\* d.to_string() of the constructed payload
Display ==
    /\ pc = "compared"
    /\ shown' = UINT256Display(res.val.value)
    /\ pc' = "shown"
    /\ UNCHANGED << runtime_table, removed_case, debug_assertions, ext, schema, arg, vres, res, res2, cmp, res3, shown2 >>

\* UINT256::from_str on the displayed text
Reparse ==
    /\ pc = "shown"
    /\ res3' = UINT256_from_str(shown)
    /\ pc' = "reparsed"
    /\ UNCHANGED << runtime_table, removed_case, debug_assertions, ext, schema, arg, vres, res, res2, cmp, shown, shown2 >>

\* to_string() of the payload constructed from the displayed text
Redisplay ==
    /\ pc = "reparsed"
    /\ res3.ok
    /\ shown2' = UINT256Display(res3.val)
    /\ pc' = "done"
    /\ UNCHANGED << runtime_table, removed_case, debug_assertions, ext, schema, arg, vres, res, res2, cmp, shown, res3 >>

Next ==
    \/ LoadExtension
    \/ LoadSchema
    \/ Validate
    \/ Evaluate
    \/ EvaluateOperand
    \/ LessThan
    \/ LessThanOrEqual
    \/ GreaterThan
    \/ GreaterThanOrEqual
    \/ Equal
    \/ Display
    \/ Reparse
    \/ Redisplay

Spec == Init /\ [][Next]_vars

(***************************************************************************)
(* Builds whose two halves have drifted apart: the runtime table declares  *)
(* a function the mirror does not know or another return type than the     *)
(* mirror computes, or one case is removed from one of the mirror's three  *)
(* dispatches.                                                             *)
(***************************************************************************)
\* the names the mirror's dispatches match
KnownNames == {"u256"} \cup ComparisonNames

\* names of functions the mirror does not know
UnknownNames == {"u256Add", "u256Equal"}

InsertAt(seq, k, x) == SubSeq(seq, 1, k - 1) \o <<x>> \o SubSeq(seq, k, Len(seq))

\* the shipped table with one more binary function, at any place
TablesWithUnknownName ==
    { [extension EXCEPT !.funcs =
          InsertAt(extension.funcs, k,
                   binary(name, "MethodStyle", "uint256_lt", SchemaBool,
                          <<Some(SchemaExtension(typename)), Some(SchemaExtension(typename))>>))] :
      k \in 1..(Len(extension.funcs) + 1), name \in UnknownNames }

\* the shipped table with the declared return type of one function changed
TablesWithOtherReturnType ==
    { [extension EXCEPT !.funcs[i].return_type = rt] :
      i \in 1..Len(extension.funcs),
      rt \in {None, Some(SchemaString), Some(SchemaBool),
              Some(SchemaExtension(typename)), Some(SchemaExtension("decimal"))} }

RuntimeTables == {extension} \cup TablesWithUnknownName \cup TablesWithOtherReturnType

RemovedCases ==
    {NoCase} \cup
    { [dispatch |-> fn, name |-> name] :
      fn \in {"get_argument_types", "get_return_type", "get_argument_check"},
      name \in KnownNames }

\* the calls tried against a drifted build
DriftArgs ==
    { LitExpr(StringValue(<<"1", "2", "3">>)), LitExpr(StringValue(<<"1", ".">>)),
      AttrExpr(StringValue(<<"0", "1", "2", "3">>)), AttrExpr(StringValue(<<"-", ".">>)) }

InitDrift ==
    /\ runtime_table \in RuntimeTables
    /\ removed_case \in RemovedCases
    /\ debug_assertions \in BOOLEAN
    /\ arg \in DriftArgs
    /\ ext = NoValue
    /\ schema = NoValue
    /\ pc = "start"
    /\ vres = NoValue
    /\ res = NoValue
    /\ res2 = NoValue
    /\ cmp = NoCmp
    /\ shown = NoValue
    /\ res3 = NoValue
    /\ shown2 = NoValue

SpecDrift == InitDrift /\ [][Next]_vars

(***************************************************************************)
(* What the properties speak of: the decimal reading of a text, without    *)
(* the payload's representation.                                           *)
(***************************************************************************)
\* the decimal digits of Unicode class Nd among the characters of the model
DecimalDigits == AsciiDigits \cup {"ARABIC3"}

\* the ASCII digit of the same numeric value
AsciiOf(c) == IF c = "ARABIC3" THEN "3" ELSE c

\* the text in canonical form: ASCII digits, no leading zeros, "0" for zero
Canonical(s) ==
    LET d == [i \in 1..Len(s) |-> AsciiOf(s[i])]
        nz == { i \in 1..Len(d) : d[i] # "0" }
    IN IF nz = {} THEN <<"0">>
       ELSE SubSeq(d, CHOOSE i \in nz : \A j \in nz : i <= j, Len(d))

DigitOrder(c) == CHOOSE n \in 0..9 : DigitChar(n) = c

\* a < b for canonical texts: the shorter, or the first differing digit smaller
CanonLess(a, b) ==
    \/ Len(a) < Len(b)
    \/ /\ Len(a) = Len(b)
       /\ \E i \in 1..Len(a) :
             /\ \A j \in 1..(i - 1) : a[j] = b[j]
             /\ DigitOrder(a[i]) < DigitOrder(b[i])

\* the number a text denotes is at most 2^256 - 1
InRange(s) == ~CanonLess(MaxDec, Canonical(s))

\* the argument of the call is a string / the string
ArgIsString == arg.value.tag = "String"

ArgText == arg.value.s

\* the call was evaluated
Evaluated == res # NoValue

FailedParseError(s) == Err(extension_err(ErrorToString(FailedParse(s))))

OverflowError == Err(extension_err(ErrorToString(Overflow)))

(***************************************************************************)
(* C1                                                                      *)
(***************************************************************************)
\* the text is empty or holds a character that is no decimal digit: a decimal
\* point, a sign, a letter, a quote, a backslash
LexicallyBad(s) == s = <<>> \/ \E i \in 1..Len(s) : s[i] \notin DecimalDigits

ConstructedValueOf(s) ==
    /\ res.ok
    /\ res.val.tag = "ExtensionValue"
    /\ U256Display(res.val.value.value) = Canonical(s)

\* C2: for a string the lexical check accepts, the constructor succeeds with
\* the number the string denotes when that number is at most 2^256 - 1 and
\* fails with Overflow when it is larger; Overflow is reported for no other
\* string.
C2_RangeDecidesOverflow ==
    (Evaluated /\ ArgIsString) =>
        /\ is_match(ArgText) /\ InRange(ArgText) => ConstructedValueOf(ArgText)
        /\ is_match(ArgText) /\ ~InRange(ArgText) => res = OverflowError
        /\ res = OverflowError => is_match(ArgText) /\ ~InRange(ArgText)

\* the same, for the strings of ASCII digits alone
C2_AsciiRangeDecidesOverflow ==
    (Evaluated /\ ArgIsString /\ \A i \in 1..Len(ArgText) : ArgText[i] \in AsciiDigits) =>
        /\ is_match(ArgText) /\ InRange(ArgText) => ConstructedValueOf(ArgText)
        /\ is_match(ArgText) /\ ~InRange(ArgText) => res = OverflowError
        /\ res = OverflowError => is_match(ArgText) /\ ~InRange(ArgText)

(***************************************************************************)
(* C3                                                                      *)
(***************************************************************************)
HasLeadingZero(s) == Len(s) > 1 /\ s[1] = "0"

\* C3: the display of a constructed value is the canonical form of the text it
\* was constructed from, and is that text exactly when the text has no leading
\* zero; constructing from the displayed text succeeds with an equal payload,
\* and displaying that gives the same text again.
C3_RoundTrip ==
    /\ pc \in {"shown", "reparsed", "done"} =>
          /\ shown = Canonical(ArgText)
          /\ (shown = ArgText) <=> ~HasLeadingZero(ArgText)
    /\ pc \in {"reparsed", "done"} => res3.ok /\ res3.val = res.val.value
    /\ pc = "done" => shown2 = shown

\* "0123" was displayed as "123", and that text as "123" again
C3_Witness ==
    /\ pc = "done"
    /\ ArgText = <<"0", "1", "2", "3">>
    /\ shown = <<"1", "2", "3">>
    /\ shown2 = <<"1", "2", "3">>

(***************************************************************************)
(* C4, C5, C6                                                              *)
(***************************************************************************)
\* the text the second value was constructed from
OperandText == res2.val.args[1].s

\* the truth value of a comparison's result
Holds(r) == r.ok /\ r.val = BoolValue(TRUE)

\* C4: of u256LessThan(x, y), x == y and u256GreaterThan(x, y) exactly one
\* holds; u256LessThanOrEqual is (less or equal) and u256GreaterThanOrEqual is
\* (greater or equal).
C4_TotalOrder ==
    pc = "compared" =>
        LET lt == Holds(cmp.lt)
            gt == Holds(cmp.gt)
            eq == cmp.eq = BoolValue(TRUE)
        IN /\ lt \/ eq \/ gt
           /\ ~(lt /\ eq) /\ ~(lt /\ gt) /\ ~(eq /\ gt)
           /\ Holds(cmp.le) <=> (lt \/ eq)
           /\ Holds(cmp.ge) <=> (gt \/ eq)

\* two values of one number from different texts: equal, less-or-equal and
\* greater-or-equal, neither less nor greater
C4_Witness ==
    /\ pc = "compared"
    /\ ArgText = <<"0", "1", "2", "3">>
    /\ OperandText = <<"1", "2", "3">>
    /\ cmp.eq = BoolValue(TRUE)
    /\ Holds(cmp.le) /\ Holds(cmp.ge) /\ ~Holds(cmp.lt) /\ ~Holds(cmp.gt)

\* C5: each of the four comparison functions returns, without failure, the
\* boolean of the unsigned comparison of the two numbers, whatever texts the
\* values were constructed from.
C5_ComparesNumbers ==
    LET x == Canonical(ArgText)
        y == Canonical(OperandText)
    IN /\ cmp.lt # NoValue => cmp.lt = Ok(BoolValue(CanonLess(x, y)))
       /\ cmp.le # NoValue => cmp.le = Ok(BoolValue(~CanonLess(y, x)))
       /\ cmp.gt # NoValue => cmp.gt = Ok(BoolValue(CanonLess(y, x)))
       /\ cmp.ge # NoValue => cmp.ge = Ok(BoolValue(~CanonLess(x, y)))

\* 123 against 124, as in the tests: less, less-or-equal, not greater, not
\* greater-or-equal
C5_Witness ==
    /\ pc = "ge"
    /\ ArgText = <<"1", "2", "3">>
    /\ OperandText = <<"1", "2", "4">>
    /\ cmp.lt = Ok(BoolValue(TRUE))
    /\ cmp.le = Ok(BoolValue(TRUE))
    /\ cmp.gt = Ok(BoolValue(FALSE))
    /\ cmp.ge = Ok(BoolValue(FALSE))

\* C6: two u256 values are equal exactly when they hold the same number,
\* whatever calls and texts built them and whatever arguments they retain; a
\* u256 value equals neither a string nor a long.
C6_EqualityIsPayloadEquality ==
    pc = "compared" =>
        /\ cmp.eq = BoolValue(Canonical(ArgText) = Canonical(OperandText))
        /\ cmp.eqText = BoolValue(FALSE)
        /\ cmp.eqLong = BoolValue(FALSE)

\* "0123" and "123": built by two calls, retaining different arguments, equal
C6_Witness ==
    /\ pc = "compared"
    /\ ArgText = <<"0", "1", "2", "3">>
    /\ OperandText = <<"1", "2", "3">>
    /\ res.val.args # res2.val.args
    /\ cmp.eq = BoolValue(TRUE)

(***************************************************************************)
(* C7                                                                      *)
(***************************************************************************)
IsExtensionError(e) == e.kind = "ExtensionError" /\ e.extension_name = "u256"

\* C7 as stated: every failure of the constructor function, for any argument
\* value, is the extension error of u256.
C7_EveryFailureIsExtensionError ==
    (Evaluated /\ ~res.ok) => IsExtensionError(res.err)

\* C7 as amended: on a string argument every failure of the constructor
\* function is the extension error of u256, with the text of FailedParse or of
\* Overflow as its message; on an argument that is not a string the failure is
\* the evaluator's type error, which expected a string.
C7_StringFailureIsExtensionError ==
    (Evaluated /\ ~res.ok) =>
        IF ArgIsString
        THEN /\ IsExtensionError(res.err)
             /\ res.err.msg \in {ErrorToString(FailedParse(ArgText)), ErrorToString(Overflow)}
        ELSE res.err = [kind |-> "TypeError", expected |-> <<"String">>, actual |-> arg.value.tag]

\* an overflowing text failed with the extension error of u256
C7_Witness ==
    /\ pc = "failed"
    /\ ArgIsString
    /\ ArgText = MaxDecPlusOne
    /\ res = OverflowError
    /\ IsExtensionError(res.err)

(***************************************************************************)
(* C8                                                                      *)
(***************************************************************************)
ExtLoaded == ext # NoValue

\* C8: in the function table, names are unique and exactly one function is a
\* constructor, the one named u256: free-function style, one string argument,
\* returning the u256 type. The four comparisons exist, are method style,
\* take two arguments, return Bool and are no constructors.
C8_FunctionTable ==
    ExtLoaded =>
        /\ \A i, j \in 1..Len(ext.funcs) : ext.funcs[i].name = ext.funcs[j].name => i = j
        /\ Cardinality({ i \in 1..Len(ext.funcs) : is_constructor(ext, ext.funcs[i]) }) = 1
        /\ \A i \in get_func(ext, "u256") :
              /\ is_constructor(ext, ext.funcs[i])
              /\ ext.funcs[i].style = "FunctionStyle"
              /\ ext.funcs[i].arg_types = <<Some(SchemaString)>>
              /\ ext.funcs[i].return_type = Some(SchemaExtension("u256"))
        /\ get_func(ext, "u256") # {}
        /\ \A name \in {"u256LessThan", "u256LessThanOrEqual",
                        "u256GreaterThan", "u256GreaterThanOrEqual"} :
              /\ get_func(ext, name) # {}
              /\ \A i \in get_func(ext, name) :
                    /\ ~is_constructor(ext, ext.funcs[i])
                    /\ ext.funcs[i].style = "MethodStyle"
                    /\ Len(ext.funcs[i].arg_types) = 2
                    /\ ext.funcs[i].return_type = Some(SchemaBool)

\* the table was built and the constructor was called through it
C8_Witness ==
    /\ ExtLoaded
    /\ Len(ext.funcs) = 5
    /\ pc = "constructed"

(***************************************************************************)
(* C9                                                                      *)
(***************************************************************************)
SchemaLoaded == schema # NoValue

\* C9: building the mirror from the shipped table never aborts, and the mirror
\* holds, in the table's order, one entry per function with the same name, as
\* many argument types as the function declares, each consistent with the
\* declared one, a return type consistent with the declared one, and a
\* static-check hook exactly on the constructor u256.
C9_MirrorAgrees ==
    /\ pc # "aborted"
    /\ SchemaLoaded =>
          /\ schema.name = ext.name
          /\ Len(schema.fun_tys) = Len(ext.funcs)
          /\ \A i \in 1..Len(ext.funcs) :
                LET f == ext.funcs[i]
                    t == schema.fun_tys[i]
                IN /\ t.name = f.name
                   /\ Len(t.argument_types) = Len(f.arg_types)
                   /\ \A k \in 1..Len(f.arg_types) :
                         /\ f.arg_types[k] # None
                         /\ is_consistent_with(t.argument_types[k], f.arg_types[k][1])
                   /\ f.return_type # None
                   /\ is_consistent_with(t.return_type, f.return_type[1])
                   /\ (t.check # None) <=> (f.name = "u256")

\* the mirror was built, with assertions compiled in, and served a validation
C9_Witness ==
    /\ SchemaLoaded
    /\ debug_assertions
    /\ Len(schema.fun_tys) = 5
    /\ pc = "validated"

(***************************************************************************)
(* C10                                                                     *)
(***************************************************************************)
Validated == vres # NoValue

ArgIsLiteralString == arg.kind = "Lit" /\ ArgIsString

\* C10: the static check of a call of u256 returns an error exactly when the
\* argument expression is a literal string on which the runtime constructor
\* fails; a call so rejected is not evaluated; a string that arrives through
\* an expression that is no literal passes the check whatever it holds, and a
\* malformed one fails when the call is evaluated.
C10_StaticCheckOfLiterals ==
    /\ Validated =>
          (~vres.ok <=> (ArgIsLiteralString /\ ~uint256_from_str(arg.value).ok))
    /\ pc = "rejected" => ~Evaluated /\ ~vres.ok
    /\ Evaluated => vres.ok
    /\ (Evaluated /\ ArgIsString /\ ~UINT256_from_str(ArgText).ok) =>
          arg.kind = "GetAttr" /\ pc = "failed" /\ ~res.ok

\* "12.34" as a literal was rejected by the check and not evaluated
C10_Witness ==
    /\ pc = "rejected"
    /\ arg = LitExpr(StringValue(<<"1", "2", ".", "3", "4">>))
    /\ ~vres.ok
    /\ ~Evaluated

\* "12.34" as the value of a context attribute passed the check and failed
\* when the call was evaluated
C10_DeferredFailure ==
    /\ pc = "failed"
    /\ arg = AttrExpr(StringValue(<<"1", "2", ".", "3", "4">>))
    /\ vres.ok
    /\ res = FailedParseError(ArgText)

(***************************************************************************)
(* C11                                                                     *)
(***************************************************************************)
\* the mirror's return type ty does not agree with what function f declares
Mismatched(f, ty) ==
    IF f.return_type = None THEN ty # TypeNever
    ELSE ~is_consistent_with(ty, f.return_type[1])

\* some entry of the mirror that was returned is mismatched
MirrorHoldsMismatch ==
    \E i \in 1..Len(schema.fun_tys) : Mismatched(ext.funcs[i], schema.fun_tys[i].return_type)

\* the runtime table declares, for a name the mirror knows, a return type the
\* mirror's does not agree with
TableMismatch ==
    \E i \in 1..Len(runtime_table.funcs) :
        LET f == runtime_table.funcs[i]
        IN /\ f.name \in KnownNames
           /\ Mismatched(f, get_return_type(f.name, TypeExtension(runtime_table.name)).val)

\* the table names a function the mirror does not know, or the case of one of
\* its functions is removed from a dispatch of the mirror
Stale ==
    \/ \E i \in 1..Len(runtime_table.funcs) : runtime_table.funcs[i].name \notin KnownNames
    \/ /\ removed_case # NoCase
       /\ \E i \in 1..Len(runtime_table.funcs) : runtime_table.funcs[i].name = removed_case.name

C12_StaleMirrorAborts ==
    /\ Stale =>
          /\ pc \in {"start", "loaded", "aborted"}
          /\ ~SchemaLoaded
          /\ ~Validated
          /\ ~Evaluated
    /\ \A i \in 1..Len(runtime_table.funcs) :
          LET fname == runtime_table.funcs[i].name
              u256_ty == TypeExtension(runtime_table.name)
          IN fname \notin KnownNames =>
                /\ IsPanic(get_argument_types(fname, u256_ty))
                /\ IsPanic(get_return_type(fname, u256_ty))
                /\ IsPanic(get_argument_check(fname))

\* without debug assertions, the shipped table with the case of u256LessThan
\* removed from get_argument_check made the construction abort
C12_Witness ==
    /\ pc = "aborted"
    /\ ~debug_assertions
    /\ runtime_table = extension
    /\ removed_case = [dispatch |-> "get_argument_check", name |-> "u256LessThan"]
    /\ schema = NoValue

\* a table with the unknown function u256Add after the shipped ones made the
\* construction abort
C12_UnknownNameAborted ==
    /\ pc = "aborted"
    /\ removed_case = NoCase
    /\ Len(runtime_table.funcs) = 6
    /\ runtime_table.funcs[6].name = "u256Add"
    /\ schema = NoValue

====
